---- MODULE Spec2Model ----
(***************************************************************************)
(* Model of NetworkInspector (network_inspector.py): run_inspection,       *)
(* inspect_device and _get_inspection_commands.                            *)
(*                                                                         *)
(* Representation.  A Python dict is a function whose DOMAIN is the set of *)
(* keys present.  A Python str that the code only copies or compares is a  *)
(* TLA+ string; a str the code edits character by character (the prompt,   *)
(* the host it may replace) is a sequence of one-character strings.  The   *)
(* transcript (result['output']) is the sequence of the pieces the code    *)
(* concatenates with +=, each piece a tuple of strings; '' is <<>>.        *)
(* Python None is the string "None".  A JSON value that is no list where a *)
(* list is expected (true) is the one-element tuple holding its tag.       *)
(***************************************************************************)
EXTENDS Integers, Sequences, FiniteSets, TLC

VARIABLES
    devices,        \* self.devices: the device list of the run
    commands,       \* self.commands: external per-platform command mapping
    pc,             \* position of the single thread of control
    idx,            \* run_inspection: 1-based index of the next device
    results,        \* run_inspection: the results list
    result,         \* inspect_device: the result dict being built
    device_config,  \* inspect_device: private copy handed to ConnectHandler
    passwords,      \* inspect_device: candidate credential list
    i,              \* inspect_device: enumerate index of the next attempt
    connection,     \* inspect_device: None, or the session and its state
    password_used,  \* inspect_device: local password_used
    cmds,           \* inspect_device: local commands (resolved list)
    k,              \* inspect_device: 1-based index of the next command
    output,         \* inspect_device: local output
    calls,          \* log of session-provider calls of the current device
    history,        \* per finished device: the provider's responses to it
    sessions        \* every session ConnectHandler returned in this run

vars == <<devices, commands, pc, idx, results, result, device_config,
          passwords, i, connection, password_used, cmds, k, output,
          calls, history, sessions>>

-----------------------------------------------------------------------------
(* Bounds and input sets *)

MaxDevices == 2

None == "None"

\* The pieces written into result['output'], in English: '连接超时' (line
\* 130), '认证失败：所有密码尝试均失败' (line 140), f'发生错误: {e}' (line 134),
\* f'执行命令时发生错误: {e}' (line 174), f'\n--- Command: {cmd} ---\n' (line
\* 156), f"命令 '{cmd}' 执行失败: {e}\n" (line 168).
TimeoutText == <<"text", "connection timed out">>
AuthFailedText == <<"text", "authentication failed: all passwords failed">>
ErrorText(e) == <<"error", e>>
ExecErrorText(e) == <<"exec error", e>>
CommandLabel(cmd) == <<"--- Command:", cmd>>
CommandFailedText(cmd, e) == <<"command failed", cmd, e>>

EmptyDict == [x \in {} |-> x]

\* Device descriptors of the inspection runs (devices.json records).
DeviceA ==
    [host |-> <<"h", "1">>, device_type |-> "cisco_ios", password |-> "p1",
     commands |-> <<"cmdA">>]
DeviceB ==
    [host |-> <<"h", "2">>, device_type |-> "vendorA", password |-> "p2",
     backup_password |-> "b2"]
DeviceC ==
    [host |-> <<"h", "3">>, device_type |-> "unknown_os", password |-> "p3",
     backup_password |-> "", commands |-> <<>>]

DevicePool == {DeviceA, DeviceB, DeviceC}

\* "commands": true in devices.json: truthy, and not iterable
JsonTrue == <<"<json true>">>
NotIterable == { JsonTrue }
\* str(e) of the TypeError that iterating over it raises
NotIterableError == "'bool' object is not iterable"

\* A device record whose commands value is not a list.
DeviceD ==
    [host |-> <<"h", "4">>, device_type |-> "unknown_os", password |-> "p4",
     commands |-> JsonTrue]

\* External command mappings of the inspection runs (commands.json).
CommandSets ==
    { EmptyDict,
      [vendorA |-> <<"show clock", "show users">>, cisco_ios |-> <<"extA">>] }

\* What the session provider may answer.
Prompts == { <<"s", "w", "1", "#">>, <<"r", "$", "2", ">", " ">> }
CmdOutputs == { "Version 1.0", "" }
Errors == { "E" }

-----------------------------------------------------------------------------
(* Pure helpers *)

\* dict.get(key): the value, or None when the key is absent
Get(d, key) == IF key \in DOMAIN d THEN d[key] ELSE None

\* dict.pop(key, None) on a copy: the dict without the key
Pop(d, key) == [x \in DOMAIN d \ {key} |-> d[x]]

\* faulty variant: at most one trailing character is dropped
rstrip_OneChar(s, chars) ==
    IF Len(s) > 0 /\ s[Len(s)] \in chars THEN SubSeq(s, 1, Len(s) - 1) ELSE s

\* str.rstrip(chars): drop trailing characters that are in chars
RECURSIVE rstrip(_, _)
rstrip(s, chars) ==
    IF Len(s) = 0 THEN s
    ELSE IF s[Len(s)] \in chars THEN rstrip(SubSeq(s, 1, Len(s) - 1), chars)
    ELSE s

PromptChars == {"#", ">", "$", " "}

\* faulty variant: the index test is off by one
password_type_OffByOne(n) == IF n = 1 THEN "primary" ELSE "secondary"

\* password_type = "主密码" if i == 0 else "备用密码"
password_type(n) == IF n = 0 THEN "primary" ELSE "secondary"

\* the built-in commands_map of _get_inspection_commands
commands_map ==
    [cisco_ios |->
        <<"show version", "show ip interface brief", "show vlan brief",
          "show spanning-tree summary", "show arp", "show processes cpu",
          "show memory statistics">>,
     cisco_xe |->
        <<"show version", "show ip interface brief", "show vlan brief",
          "show spanning-tree summary", "show arp", "show processes cpu",
          "show memory statistics">>,
     cisco_nxos |->
        <<"show version", "show interface brief", "show vlan brief",
          "show spanning-tree detail", "show ip arp", "show processes cpu",
          "show processes memory">>,
     huawei |->
        <<"display version", "display ip interface brief", "display vlan",
          "display stp brief", "display arp", "display cpu-usage",
          "display memory-usage">>,
     h3c |->
        <<"display version", "display ip interface brief", "display vlan",
          "display stp brief", "display arp", "display cpu-usage",
          "display memory">>,
     juniper |->
        <<"show version", "show interfaces terse", "show vlans",
          "show spanning-tree bridge", "show arp", "show chassis alarms",
          "show system processes summary">>]

\* faulty variant: the external mapping is consulted before the override
get_inspection_commands_ExternalFirst(ext, device) ==
    LET device_type == Get(device, "device_type") IN
    IF DOMAIN ext /= {} /\ device_type \in DOMAIN ext
    THEN ext[device_type]
    ELSE IF "commands" \in DOMAIN device /\ Len(device["commands"]) > 0
    THEN device["commands"]
    ELSE IF device_type \in DOMAIN commands_map
         THEN commands_map[device_type]
         ELSE <<"show version">>

\* NetworkInspector._get_inspection_commands(device), with self.commands = ext
get_inspection_commands(ext, device) ==
    IF "commands" \in DOMAIN device /\ Len(device["commands"]) > 0
    THEN device["commands"]
    ELSE LET device_type == Get(device, "device_type") IN
         IF DOMAIN ext /= {} /\ device_type \in DOMAIN ext
         THEN ext[device_type]
         ELSE IF device_type \in DOMAIN commands_map
              THEN commands_map[device_type]
              ELSE <<"show version">>

-----------------------------------------------------------------------------
(* Session-provider call log *)

\* device_config['password'] = password
Put(d, key, v) == [x \in DOMAIN d \cup {key} |-> IF x = key THEN v ELSE d[x]]

\* n is the enumerate index of the credential the attempt was made with
OpenCall(n, cfg, outcome, value) ==
    [op |-> "open", attempt |-> n, config |-> cfg,
     outcome |-> outcome, value |-> value]
PromptCall(outcome, value) ==
    [op |-> "prompt", outcome |-> outcome, value |-> value]
SendCall(cmd, outcome, value) ==
    [op |-> "send", cmd |-> cmd, outcome |-> outcome, value |-> value]
CloseCall(outcome, value) ==
    [op |-> "close", outcome |-> outcome, value |-> value]

\* What the provider answered to open, prompt read and send, in call order.
Responses(log) ==
    LET answered == SelectSeq(log, LAMBDA c : c.op /= "close")
    IN [n \in 1..Len(answered) |->
           <<answered[n].op, answered[n].outcome, answered[n].value>>]

-----------------------------------------------------------------------------
(* run_inspection *)

\* faulty variant: the result is inserted at the front of the list
Return_Prepend(res, log) ==
    /\ results' = <<res>> \o results
    /\ history' = <<Responses(log)>> \o history
    /\ idx' = idx + 1
    /\ pc' = "run"

\* inspect_device returns res; run_inspection appends it and takes the next
\* device (lines 183/132/136/142 and 275-276).
Return(res, log) ==
    /\ results' = Append(results, res)
    /\ history' = Append(history, Responses(log))
    /\ idx' = idx + 1
    /\ pc' = "run"

\* faulty variant: one result dict is kept across devices and only its
\* identifying fields are set anew, so status, output and rank carry over
InspectDevice_SharedResult ==
    /\ pc = "run"
    /\ idx <= Len(devices)
    /\ LET device == devices[idx] IN
       /\ result' =
            IF result = EmptyDict
            THEN [hostname |-> Get(device, "host"),
                  ip_address |-> Get(device, "host"),
                  device_type |-> Get(device, "device_type"),
                  status |-> "failed",
                  output |-> <<>>,
                  password_used |-> None]
            ELSE [result EXCEPT !.hostname = Get(device, "host"),
                                !.ip_address = Get(device, "host"),
                                !.device_type = Get(device, "device_type")]
       /\ passwords' =
            <<Get(device, "password")>> \o
            (IF "backup_password" \in DOMAIN device
                /\ device["backup_password"] \notin {"", None}
             THEN <<device["backup_password"]>>
             ELSE <<>>)
       /\ device_config' = Pop(Pop(device, "backup_password"), "commands")
    /\ connection' = None
    /\ password_used' = None
    /\ i' = 0
    /\ cmds' = <<>>
    /\ k' = 0
    /\ output' = <<>>
    /\ calls' = <<>>
    /\ pc' = "connect"
    /\ UNCHANGED <<devices, commands, idx, results, history>>
    /\ UNCHANGED sessions

\* faulty variant: a backup_password key is enough, an empty value is not
\* skipped
InspectDevice_EmptyBackup ==
    /\ pc = "run"
    /\ idx <= Len(devices)
    /\ LET device == devices[idx] IN
       /\ result' = [hostname |-> Get(device, "host"),
                     ip_address |-> Get(device, "host"),
                     device_type |-> Get(device, "device_type"),
                     status |-> "failed",
                     output |-> <<>>,
                     password_used |-> None]
       /\ passwords' =
            <<Get(device, "password")>> \o
            (IF "backup_password" \in DOMAIN device
             THEN <<device["backup_password"]>>
             ELSE <<>>)
       /\ device_config' = Pop(Pop(device, "backup_password"), "commands")
    /\ connection' = None
    /\ password_used' = None
    /\ i' = 0
    /\ cmds' = <<>>
    /\ k' = 0
    /\ output' = <<>>
    /\ calls' = <<>>
    /\ pc' = "connect"
    /\ UNCHANGED <<devices, commands, idx, results, history, sessions>>

\* faulty variant: no copy is made, backup_password and commands are popped
\* from the descriptor itself
InspectDevice_NoCopy ==
    /\ pc = "run"
    /\ idx <= Len(devices)
    /\ LET device == devices[idx]
           popped == Pop(Pop(device, "backup_password"), "commands")
       IN
       /\ result' = [hostname |-> Get(device, "host"),
                     ip_address |-> Get(device, "host"),
                     device_type |-> Get(device, "device_type"),
                     status |-> "failed",
                     output |-> <<>>,
                     password_used |-> None]
       /\ passwords' =
            <<Get(device, "password")>> \o
            (IF "backup_password" \in DOMAIN device
                /\ device["backup_password"] \notin {"", None}
             THEN <<device["backup_password"]>>
             ELSE <<>>)
       /\ device_config' = popped
       /\ devices' = [devices EXCEPT ![idx] = popped]
    /\ connection' = None
    /\ password_used' = None
    /\ i' = 0
    /\ cmds' = <<>>
    /\ k' = 0
    /\ output' = <<>>
    /\ calls' = <<>>
    /\ pc' = "connect"
    /\ UNCHANGED <<commands, idx, results, history, sessions>>

\* faulty variant: the result dict starts with status 'success'
InspectDevice_DefaultSuccess ==
    /\ pc = "run"
    /\ idx <= Len(devices)
    /\ LET device == devices[idx] IN
       /\ result' = [hostname |-> Get(device, "host"),
                     ip_address |-> Get(device, "host"),
                     device_type |-> Get(device, "device_type"),
                     status |-> "success",
                     output |-> <<>>,
                     password_used |-> None]
       /\ passwords' =
            <<Get(device, "password")>> \o
            (IF "backup_password" \in DOMAIN device
                /\ device["backup_password"] \notin {"", None}
             THEN <<device["backup_password"]>>
             ELSE <<>>)
       /\ device_config' = Pop(Pop(device, "backup_password"), "commands")
    /\ connection' = None
    /\ password_used' = None
    /\ i' = 0
    /\ cmds' = <<>>
    /\ k' = 0
    /\ output' = <<>>
    /\ calls' = <<>>
    /\ pc' = "connect"
    /\ UNCHANGED <<devices, commands, idx, results, history, sessions>>

\* for device in self.devices: inspect_device(device), up to the first
\* ConnectHandler call (lines 273-275, 87-109).
InspectDevice ==
    /\ pc = "run"
    /\ idx <= Len(devices)
    /\ LET device == devices[idx] IN
       /\ result' = [hostname |-> Get(device, "host"),
                     ip_address |-> Get(device, "host"),
                     device_type |-> Get(device, "device_type"),
                     status |-> "failed",
                     output |-> <<>>,
                     password_used |-> None]
       /\ passwords' =
            <<Get(device, "password")>> \o
            (IF "backup_password" \in DOMAIN device
                /\ device["backup_password"] \notin {"", None}
             THEN <<device["backup_password"]>>
             ELSE <<>>)
       /\ device_config' = Pop(Pop(device, "backup_password"), "commands")
    /\ connection' = None
    /\ password_used' = None
    /\ i' = 0
    /\ cmds' = <<>>
    /\ k' = 0
    /\ output' = <<>>
    /\ calls' = <<>>
    /\ pc' = "connect"
    /\ UNCHANGED <<devices, commands, idx, results, history>>
    /\ UNCHANGED sessions

\* return results (line 279)
RunReturn ==
    /\ pc = "run"
    /\ idx > Len(devices)
    /\ pc' = "finished"
    /\ UNCHANGED <<devices, commands, idx, results, result, device_config,
                   passwords, i, connection, password_used, cmds, k, output,
                   calls, history>>
    /\ UNCHANGED sessions

-----------------------------------------------------------------------------
(* inspect_device: the credential loop, lines 111-142 *)

\* faulty variant: the loop goes on after a successful open (no break)
ConnectOk_NoBreak ==
    /\ pc = "connect"
    /\ i < Len(passwords)
    /\ LET cfg == Put(device_config, "password", passwords[i + 1]) IN
       /\ device_config' = cfg
       /\ calls' = Append(calls, OpenCall(i, cfg, "ok", <<>>))
    /\ connection' = "open"
    /\ password_used' = password_type(i)
    /\ i' = i + 1
    /\ pc' = IF i + 1 < Len(passwords) THEN "connect" ELSE "prompt"
    /\ UNCHANGED <<devices, commands, idx, results, result, passwords,
                   cmds, k, output, history>>
    /\ sessions' = Append(sessions, [owner |-> idx, state |-> "open"])

\* ConnectHandler(**device_config) returns a session (lines 114-124)
ConnectOk ==
    /\ pc = "connect"
    /\ i < Len(passwords)
    /\ LET cfg == Put(device_config, "password", passwords[i + 1]) IN
       /\ device_config' = cfg
       /\ calls' = Append(calls, OpenCall(i, cfg, "ok", <<>>))
    /\ connection' = "open"
    /\ password_used' = password_type(i)
    /\ pc' = "prompt"
    /\ UNCHANGED <<devices, commands, idx, results, result, passwords, i,
                   cmds, k, output, history>>
    /\ sessions' = Append(sessions, [owner |-> idx, state |-> "open"])

\* faulty variant: exhaustion returns without writing the failure text
ConnectAuthRejected_NoText ==
    /\ pc = "connect"
    /\ i < Len(passwords)
    /\ LET cfg == Put(device_config, "password", passwords[i + 1])
           log == Append(calls, OpenCall(i, cfg, "auth", <<>>))
       IN
       /\ device_config' = cfg
       /\ calls' = log
       /\ i' = i + 1
       /\ IF i + 1 < Len(passwords)
          THEN /\ pc' = "connect"
               /\ UNCHANGED <<results, history, idx>>
          ELSE Return(result, log)
    /\ UNCHANGED <<devices, commands, passwords, connection, password_used,
                   cmds, k, output, result>>
    /\ UNCHANGED sessions

\* faulty variant: no test of connection after the loop, the execution step
\* starts without a session
ConnectAuthRejected_NoNoneCheck ==
    /\ pc = "connect"
    /\ i < Len(passwords)
    /\ LET cfg == Put(device_config, "password", passwords[i + 1]) IN
       /\ device_config' = cfg
       /\ calls' = Append(calls, OpenCall(i, cfg, "auth", <<>>))
    /\ i' = i + 1
    /\ pc' = IF i + 1 < Len(passwords) THEN "connect" ELSE "prompt"
    /\ UNCHANGED <<devices, commands, idx, results, result, passwords,
                   connection, password_used, cmds, k, output, history,
                   sessions>>

\* ConnectHandler raises NetMikoAuthenticationException: continue; when the
\* list is exhausted, connection is None (lines 126-128, 139-142)
ConnectAuthRejected ==
    /\ pc = "connect"
    /\ i < Len(passwords)
    /\ LET cfg == Put(device_config, "password", passwords[i + 1])
           log == Append(calls, OpenCall(i, cfg, "auth", <<>>))
           res == [result EXCEPT !.output = <<AuthFailedText>>,
                                 !.password_used = password_used]
       IN
       /\ device_config' = cfg
       /\ calls' = log
       /\ i' = i + 1
       /\ IF i + 1 < Len(passwords)
          THEN /\ pc' = "connect"
               /\ UNCHANGED <<result, results, history, idx>>
          ELSE IF connection = None
          THEN /\ result' = res
               /\ Return(res, log)
          ELSE /\ pc' = "prompt"
               /\ UNCHANGED <<result, results, history, idx>>
    /\ UNCHANGED <<devices, commands, passwords, connection, password_used,
                   cmds, k, output>>
    /\ UNCHANGED sessions

\* faulty variant: a timeout moves on to the next credential
ConnectTimeout_Continue ==
    /\ pc = "connect"
    /\ i < Len(passwords)
    /\ LET cfg == Put(device_config, "password", passwords[i + 1])
           log == Append(calls, OpenCall(i, cfg, "timeout", <<>>))
           res == [result EXCEPT !.output = <<TimeoutText>>,
                                 !.password_used = password_used]
       IN
       /\ device_config' = cfg
       /\ calls' = log
       /\ i' = i + 1
       /\ IF i + 1 < Len(passwords)
          THEN /\ pc' = "connect"
               /\ UNCHANGED <<result, results, history, idx>>
          ELSE /\ result' = res
               /\ Return(res, log)
    /\ UNCHANGED <<devices, commands, passwords, connection, password_used,
                   cmds, k, output>>
    /\ UNCHANGED sessions

\* ConnectHandler raises NetMikoTimeoutException (lines 129-132)
ConnectTimeout ==
    /\ pc = "connect"
    /\ i < Len(passwords)
    /\ LET cfg == Put(device_config, "password", passwords[i + 1])
           log == Append(calls, OpenCall(i, cfg, "timeout", <<>>))
           res == [result EXCEPT !.output = <<TimeoutText>>,
                                 !.password_used = password_used]
       IN
       /\ device_config' = cfg
       /\ calls' = log
       /\ result' = res
       /\ Return(res, log)
    /\ UNCHANGED <<devices, commands, passwords, i, connection,
                   password_used, cmds, k, output>>
    /\ UNCHANGED sessions

\* faulty variant: the rank of the failed attempt is recorded
ConnectOtherError_Rank ==
    /\ pc = "connect"
    /\ i < Len(passwords)
    /\ \E e \in Errors :
       LET cfg == Put(device_config, "password", passwords[i + 1])
           log == Append(calls, OpenCall(i, cfg, "other", <<e>>))
           res == [result EXCEPT !.output = <<ErrorText(e)>>,
                                 !.password_used = password_type(i)]
       IN
       /\ device_config' = cfg
       /\ calls' = log
       /\ result' = res
       /\ Return(res, log)
    /\ UNCHANGED <<devices, commands, passwords, i, connection,
                   password_used, cmds, k, output>>
    /\ UNCHANGED sessions

\* ConnectHandler raises any other Exception (lines 133-136)
ConnectOtherError ==
    /\ pc = "connect"
    /\ i < Len(passwords)
    /\ \E e \in Errors :
       LET cfg == Put(device_config, "password", passwords[i + 1])
           log == Append(calls, OpenCall(i, cfg, "other", <<e>>))
           res == [result EXCEPT !.output = <<ErrorText(e)>>,
                                 !.password_used = password_used]
       IN
       /\ device_config' = cfg
       /\ calls' = log
       /\ result' = res
       /\ Return(res, log)
    /\ UNCHANGED <<devices, commands, passwords, i, connection,
                   password_used, cmds, k, output>>
    /\ UNCHANGED sessions

-----------------------------------------------------------------------------
(* inspect_device: the execution step, lines 144-183 *)

\* cmd_output or '': nothing is appended for None or ''
OrEmpty(out) == IF out \in {None, ""} THEN <<>> ELSE << <<"output", out>> >>

\* result['status'] = 'success'; result['output'] = output (lines 170-171)
Success(res, out) == [res EXCEPT !.status = "success", !.output = out]

\* connection.find_prompt() returns; hostname and rank are recorded and the
\* commands resolved; with no command the loop body never runs
\* (lines 146-155, 170-171); a commands value that cannot be iterated makes
\* the for statement raise into the outer except (lines 155, 173-175)
FindPromptOk ==
    /\ pc = "prompt"
    /\ \E prompt \in Prompts :
       LET hostname == rstrip(prompt, PromptChars)
           res == [result EXCEPT !.hostname = hostname,
                                 !.password_used = password_used]
           resolved == get_inspection_commands(commands, devices[idx])
       IN
       /\ calls' = Append(calls, PromptCall("ok", prompt))
       /\ cmds' = resolved
       /\ output' = <<>>
       /\ k' = 1
       /\ IF resolved \in NotIterable
          THEN /\ result' =
                    [res EXCEPT !.output = <<ExecErrorText(NotIterableError)>>,
                                !.password_used = password_used]
               /\ pc' = "finally"
          ELSE IF Len(resolved) = 0
          THEN /\ result' = Success(res, <<>>)
               /\ pc' = "finally"
          ELSE /\ result' = res
               /\ pc' = "cmd"
    /\ UNCHANGED <<devices, commands, idx, results, device_config, passwords,
                   i, connection, password_used, history>>
    /\ UNCHANGED sessions

\* faulty variant: the outer except returns the result itself, skipping the
\* finally block
FindPromptRaise_NoFinally ==
    /\ pc = "prompt"
    /\ \E e \in Errors :
       LET log == Append(calls, PromptCall("raise", <<e>>))
           res == [result EXCEPT !.output = <<ExecErrorText(e)>>,
                                 !.password_used = password_used]
       IN
       /\ calls' = log
       /\ result' = res
       /\ Return(res, log)
    /\ UNCHANGED <<devices, commands, device_config, passwords,
                   i, connection, password_used, cmds, k, output>>
    /\ UNCHANGED sessions

\* faulty variant: the outer except does not record the rank
FindPromptRaise_NoRank ==
    /\ pc = "prompt"
    /\ \E e \in Errors :
       /\ calls' = Append(calls, PromptCall("raise", <<e>>))
       /\ result' = [result EXCEPT !.output = <<ExecErrorText(e)>>]
    /\ pc' = "finally"
    /\ UNCHANGED <<devices, commands, idx, results, device_config, passwords,
                   i, connection, password_used, cmds, k, output, history>>
    /\ UNCHANGED sessions

\* connection.find_prompt() raises: the outer except (lines 173-175)
FindPromptRaise ==
    /\ pc = "prompt"
    /\ \E e \in Errors :
       /\ calls' = Append(calls, PromptCall("raise", <<e>>))
       /\ result' = [result EXCEPT !.output = <<ExecErrorText(e)>>,
                                   !.password_used = password_used]
    /\ pc' = "finally"
    /\ UNCHANGED <<devices, commands, idx, results, device_config, passwords,
                   i, connection, password_used, cmds, k, output, history>>
    /\ UNCHANGED sessions

\* after one loop iteration that left the transcript out: the next command,
\* or lines 170-171 after the last one
AfterCommand(out) ==
    /\ output' = out
    /\ k' = k + 1
    /\ IF k < Len(cmds)
       THEN /\ pc' = "cmd"
            /\ UNCHANGED result
       ELSE /\ result' = Success(result, out)
            /\ pc' = "finally"

\* connection.send_command_timing(cmd) returns (lines 156-165)
SendCommandOk ==
    /\ pc = "cmd"
    /\ k <= Len(cmds)
    /\ \E cmd_output \in CmdOutputs :
       LET cmd == cmds[k] IN
       /\ calls' = Append(calls, SendCall(cmd, "ok", <<cmd_output>>))
       /\ AfterCommand(output \o <<CommandLabel(cmd)>> \o OrEmpty(cmd_output))
    /\ UNCHANGED <<devices, commands, idx, results, device_config, passwords,
                   i, connection, password_used, cmds, history>>
    /\ UNCHANGED sessions

\* faulty variant: no inner try, a raising command ends the execution step
\* in the outer except
SendCommandRaise_Abort ==
    /\ pc = "cmd"
    /\ k <= Len(cmds)
    /\ \E e \in Errors :
       /\ calls' = Append(calls, SendCall(cmds[k], "raise", <<e>>))
       /\ result' = [result EXCEPT !.output = <<ExecErrorText(e)>>,
                                   !.password_used = password_used]
    /\ pc' = "finally"
    /\ UNCHANGED <<devices, commands, idx, results, device_config, passwords,
                   i, connection, password_used, cmds, k, output, history>>
    /\ UNCHANGED sessions

\* faulty variant: no except at all, a raising command ends the whole run
SendCommandRaise_Crash ==
    /\ pc = "cmd"
    /\ k <= Len(cmds)
    /\ \E e \in Errors :
       calls' = Append(calls, SendCall(cmds[k], "raise", <<e>>))
    /\ pc' = "crashed"
    /\ UNCHANGED <<devices, commands, idx, results, result, device_config,
                   passwords, i, connection, password_used, cmds, k, output,
                   history, sessions>>

\* connection.send_command_timing(cmd) raises: the inner except (lines 166-168)
SendCommandRaise ==
    /\ pc = "cmd"
    /\ k <= Len(cmds)
    /\ \E e \in Errors :
       LET cmd == cmds[k] IN
       /\ calls' = Append(calls, SendCall(cmd, "raise", <<e>>))
       /\ AfterCommand(output \o <<CommandLabel(cmd), CommandFailedText(cmd, e)>>)
    /\ UNCHANGED <<devices, commands, idx, results, device_config, passwords,
                   i, connection, password_used, cmds, history>>
    /\ UNCHANGED sessions

\* disconnect() was called on the session connection refers to, the one
\* ConnectHandler returned last
CloseSession == [sessions EXCEPT ![Len(sessions)].state = "closed"]

\* finally: connection.disconnect() returns; return result (lines 176-183).
\* "closed" records that disconnect() was called on the session.
DisconnectOk ==
    /\ pc = "finally"
    /\ connection' = "closed"
    /\ LET log == Append(calls, CloseCall("ok", <<>>)) IN
       /\ calls' = log
       /\ Return(result, log)
    /\ UNCHANGED <<devices, commands, result, device_config, passwords, i,
                   password_used, cmds, k, output>>
    /\ sessions' = CloseSession

\* faulty variant: a failing disconnect is written into the result
DisconnectRaise_Reported ==
    /\ pc = "finally"
    /\ connection' = "closed"
    /\ \E e \in Errors :
       LET log == Append(calls, CloseCall("raise", <<e>>))
           res == [result EXCEPT !.status = "failed",
                                 !.output = <<ExecErrorText(e)>>]
       IN
       /\ calls' = log
       /\ result' = res
       /\ Return(res, log)
    /\ UNCHANGED <<devices, commands, device_config, passwords, i,
                   password_used, cmds, k, output>>
    /\ sessions' = CloseSession

\* finally: connection.disconnect() raises; except: pass (lines 178-183)
DisconnectRaise ==
    /\ pc = "finally"
    /\ connection' = "closed"
    /\ \E e \in Errors :
       LET log == Append(calls, CloseCall("raise", <<e>>)) IN
       /\ calls' = log
       /\ Return(result, log)
    /\ UNCHANGED <<devices, commands, result, device_config, passwords, i,
                   password_used, cmds, k, output>>
    /\ sessions' = CloseSession

-----------------------------------------------------------------------------
(* Specification of an inspection run *)

RECURSIVE SeqsUpTo(_, _)
SeqsUpTo(S, n) ==
    IF n = 0 THEN { <<>> }
    ELSE LET shorter == SeqsUpTo(S, n - 1)
         IN shorter \cup { Append(s, x) : s \in shorter, x \in S }

\* NetworkInspector.__init__, then run_inspection's results = []
Init ==
    /\ devices \in SeqsUpTo(DevicePool, MaxDevices)
    /\ commands \in CommandSets
    /\ pc = "run"
    /\ idx = 1
    /\ results = <<>>
    /\ result = EmptyDict
    /\ device_config = EmptyDict
    /\ passwords = <<>>
    /\ i = 0
    /\ connection = None
    /\ password_used = None
    /\ cmds = <<>>
    /\ k = 0
    /\ output = <<>>
    /\ calls = <<>>
    /\ history = <<>>
    /\ sessions = <<>>

\* Runs in which one descriptor is inspected twice, with any device of the
\* pool inspected before the pair or between its two members.
IsolationLists ==
    { <<d, x, d>> : d \in DevicePool, x \in DevicePool }
    \cup { <<x, d, d>> : d \in DevicePool, x \in DevicePool }

IsolationInit ==
    /\ devices \in IsolationLists
    /\ commands \in CommandSets
    /\ pc = "run"
    /\ idx = 1
    /\ results = <<>>
    /\ result = EmptyDict
    /\ device_config = EmptyDict
    /\ passwords = <<>>
    /\ i = 0
    /\ connection = None
    /\ password_used = None
    /\ cmds = <<>>
    /\ k = 0
    /\ output = <<>>
    /\ calls = <<>>
    /\ history = <<>>
    /\ sessions = <<>>

Next ==
    \/ InspectDevice
    \/ RunReturn
    \/ ConnectOk
    \/ ConnectAuthRejected
    \/ ConnectTimeout
    \/ ConnectOtherError
    \/ FindPromptOk
    \/ FindPromptRaise
    \/ SendCommandOk
    \/ SendCommandRaise
    \/ DisconnectOk
    \/ DisconnectRaise

Spec == Init /\ [][Next]_vars

SpecIsolation == IsolationInit /\ [][Next]_vars

\* One thread runs the loop and every provider call returns or raises, so a
\* step that can be taken is eventually taken.
FairSpec == Init /\ [][Next]_vars /\ WF_vars(Next)

\* Runs whose inventory may hold a record with a commands value that is not
\* a list (_load_devices returns what json.load read, unchecked).
MalformedInit ==
    /\ devices \in SeqsUpTo(DevicePool \cup {DeviceD}, MaxDevices)
    /\ commands \in CommandSets
    /\ pc = "run"
    /\ idx = 1
    /\ results = <<>>
    /\ result = EmptyDict
    /\ device_config = EmptyDict
    /\ passwords = <<>>
    /\ i = 0
    /\ connection = None
    /\ password_used = None
    /\ cmds = <<>>
    /\ k = 0
    /\ output = <<>>
    /\ calls = <<>>
    /\ history = <<>>
    /\ sessions = <<>>

SpecMalformed == MalformedInit /\ [][Next]_vars

-----------------------------------------------------------------------------
(* Specification of command resolution alone *)

ResolvePlatforms ==
    DOMAIN commands_map \cup {"vendorA", "unknown_os"}

ResolveOverrides == { <<>>, <<"cmdA">>, <<"cmdB", "show version">> }

\* descriptors with and without a commands key, for every platform
ResolveDevices ==
    LET base(t) == [host |-> <<"h", "1">>, device_type |-> t, password |-> "p1"]
    IN { base(t) : t \in ResolvePlatforms }
       \cup { Put(base(t), "commands", ov) :
                t \in ResolvePlatforms, ov \in ResolveOverrides }

ResolveCommandSets ==
    CommandSets \cup { [huawei |-> <<>>, unknown_os |-> <<"extU">>] }

ResolveInit ==
    /\ devices \in { <<d>> : d \in ResolveDevices }
    /\ commands \in ResolveCommandSets
    /\ pc = "resolve"
    /\ idx = 1
    /\ results = <<>>
    /\ result = EmptyDict
    /\ device_config = EmptyDict
    /\ passwords = <<>>
    /\ i = 0
    /\ connection = None
    /\ password_used = None
    /\ cmds = <<>>
    /\ k = 0
    /\ output = <<>>
    /\ calls = <<>>
    /\ history = <<>>
    /\ sessions = <<>>

\* commands = self._get_inspection_commands(device) (line 152)
ResolveCommands ==
    /\ pc = "resolve"
    /\ cmds' = get_inspection_commands(commands, devices[idx])
    /\ pc' = "resolved"
    /\ UNCHANGED <<devices, commands, idx, results, result, device_config,
                   passwords, i, connection, password_used, k, output,
                   calls, history>>
    /\ UNCHANGED sessions

NextResolve == ResolveCommands

SpecResolve == ResolveInit /\ [][NextResolve]_vars

-----------------------------------------------------------------------------
(* Observations used by the properties *)

\* inspect_device has returned for device Len(results); calls is its log
Returned == pc \in {"run", "finished"} /\ Len(results) > 0
LastResult == results[Len(results)]
LastDevice == devices[Len(results)]

Opens(log) == SelectSeq(log, LAMBDA c : c.op = "open")
Sends(log) == SelectSeq(log, LAMBDA c : c.op = "send")
Closes(log) == SelectSeq(log, LAMBDA c : c.op = "close")
Opened(log) == \E n \in 1..Len(log) : log[n].op = "open" /\ log[n].outcome = "ok"
LastOpen(log) == Opens(log)[Len(Opens(log))]
SentCommands(log) == [n \in 1..Len(Sends(log)) |-> Sends(log)[n].cmd]

\* a transcript piece that is a command label or a per-command error
IsCommandEntry(piece) == piece[1] \in {"--- Command:", "command failed"}

-----------------------------------------------------------------------------
(* Properties *)

\* C1: run_inspection returns exactly one result per input device and the
\* n-th result belongs to the n-th device, whatever failed on the way: while
\* the run is under way the results are those of the devices already
\* handled, in input order, and at the end there is one for every device.
C1_OneResultPerDeviceInOrder ==
    /\ Len(results) <= Len(devices)
    /\ Len(results) = idx - 1
    /\ pc = "finished" => Len(results) = Len(devices)
    /\ \A n \in 1..Len(results) :
          /\ results[n].ip_address = devices[n]["host"]
          /\ results[n].device_type = devices[n]["device_type"]

\* a finished run over two different devices, the first failed to connect
\* and the second inspected successfully
C1_Witness ==
    /\ pc = "finished"
    /\ Len(devices) = 2
    /\ devices[1] /= devices[2]
    /\ results[1].status = "failed"
    /\ results[2].status = "success"

\* C2: when the open attempt with the primary credential succeeds, no other
\* open attempt is made for the device and the returned rank is primary.
C2_PrimarySuccessNoSecondary ==
    (Len(calls) > 0 /\ calls[1].op = "open" /\ calls[1].attempt = 0
        /\ calls[1].outcome = "ok")
    => /\ Len(Opens(calls)) = 1
       /\ Returned => LastResult.password_used = "primary"

\* a device with a non-empty secondary credential returned after its primary
\* credential was accepted
C2_Witness ==
    /\ Returned
    /\ "backup_password" \in DOMAIN LastDevice
    /\ LastDevice["backup_password"] /= ""
    /\ calls[1].op = "open" /\ calls[1].outcome = "ok"
    /\ LastResult.password_used = "primary"

\* C3: when every open attempt made for a device was rejected by
\* authentication, the result is failed with the all-passwords-failed text as
\* its whole transcript, nothing was sent to a session, and the transcript
\* has no command entry.
C3_AuthExhausted ==
    (/\ Returned
     /\ Len(Opens(calls)) > 0
     /\ \A n \in 1..Len(Opens(calls)) : Opens(calls)[n].outcome = "auth")
    => /\ LastResult.status = "failed"
       /\ LastResult.output = <<AuthFailedText>>
       /\ Sends(calls) = <<>>
       /\ \A n \in 1..Len(LastResult.output) :
             ~IsCommandEntry(LastResult.output[n])
       /\ Len(Opens(calls)) =
             (IF "backup_password" \in DOMAIN LastDevice
                 /\ LastDevice["backup_password"] /= ""
              THEN 2 ELSE 1)

\* a device whose secondary credential is the empty string returned after
\* its primary credential was rejected
C3_Witness ==
    /\ Returned
    /\ "backup_password" \in DOMAIN LastDevice
    /\ LastDevice["backup_password"] = ""
    /\ Len(calls) = 1
    /\ calls[1].op = "open" /\ calls[1].outcome = "auth"
    /\ LastResult.output = <<AuthFailedText>>

\* C4: an open attempt that times out or fails with another error is the
\* last call made for the device (no further credential, no command), and
\* the device's result is failed with the timeout text, respectively the
\* error text, as its transcript.
C4_TimeoutOrErrorAborts ==
    \A n \in 1..Len(calls) :
       (calls[n].op = "open" /\ calls[n].outcome \in {"timeout", "other"})
       => /\ n = Len(calls)
          /\ Returned
          /\ LastResult.status = "failed"
          /\ calls[n].outcome = "timeout"
                => LastResult.output = <<TimeoutText>>
          /\ calls[n].outcome = "other"
                => LastResult.output = <<ErrorText(calls[n].value[1])>>

\* the secondary credential timed out after the primary was rejected
C4_Witness ==
    /\ Returned
    /\ Len(calls) = 2
    /\ calls[1].op = "open" /\ calls[1].outcome = "auth"
    /\ calls[2].op = "open" /\ calls[2].outcome = "timeout"
    /\ LastResult.output = <<TimeoutText>>

\* C5 as stated: disconnect is called exactly once for every inspected
\* device, connection failures included.
C5_CloseOncePerDevice ==
    Returned => Len(Closes(calls)) = 1

\* C5 as the code has it: disconnect is never called twice; it has been
\* called exactly once when inspect_device returns after a session was
\* opened (all commands fine, some command failed, the prompt read raised)
\* and not at all when no session could be opened.
C5_CloseOncePerOpenedSession ==
    /\ Len(Closes(calls)) <= 1
    /\ Returned => Len(Closes(calls)) = (IF Opened(calls) THEN 1 ELSE 0)

\* a device returned after one of its commands raised, with one disconnect
C5_Witness ==
    /\ Returned
    /\ \E n \in 1..Len(calls) : calls[n].op = "send" /\ calls[n].outcome = "raise"
    /\ Len(Closes(calls)) = 1

\* C6: command resolution, first match wins: the descriptor's non-empty
\* commands list; else the external mapping's list for the device type when
\* the type is a key of the mapping; else the built-in list for the type;
\* else the single command 'show version'.  An empty commands list counts as
\* absent.
C6_ResolutionPrecedence ==
    pc = "resolved" =>
    LET device == devices[1]
        device_type == device["device_type"]
        override == "commands" \in DOMAIN device /\ device["commands"] /= <<>>
        external == device_type \in DOMAIN commands
        builtin == device_type \in
            {"cisco_ios", "cisco_xe", "cisco_nxos", "huawei", "h3c", "juniper"}
    IN /\ override => cmds = device["commands"]
       /\ (~override /\ external) => cmds = commands[device_type]
       /\ (~override /\ ~external /\ builtin)
             => /\ cmds = commands_map[device_type]
                /\ Len(cmds) = 7
       /\ (~override /\ ~external /\ ~builtin) => cmds = <<"show version">>

\* an override was returned although the external mapping and the built-in
\* table both have a list for the device type
C6_Witness ==
    /\ pc = "resolved"
    /\ devices[1]["device_type"] = "cisco_ios"
    /\ "cisco_ios" \in DOMAIN commands
    /\ "commands" \in DOMAIN devices[1]
    /\ cmds = <<"cmdA">>

PromptRead(log) ==
    \E n \in 1..Len(log) : log[n].op = "prompt" /\ log[n].outcome = "ok"

\* the transcript entry of one send call: its label, then the output or the
\* per-command error text
Entry(c) ==
    <<CommandLabel(c.cmd)>> \o
    (IF c.outcome = "ok" THEN OrEmpty(c.value[1])
     ELSE <<CommandFailedText(c.cmd, c.value[1])>>)

RECURSIVE Transcript(_)
Transcript(sends) ==
    IF sends = <<>> THEN <<>>
    ELSE Entry(Head(sends)) \o Transcript(Tail(sends))

Labels(out) == SelectSeq(out, LAMBDA piece : piece[1] = "--- Command:")

\* C7: the commands sent so far are a prefix of the resolved commands, in
\* order and once each; once the prompt was read every resolved command has
\* been sent by the time the device returns, whichever of them raised; and a
\* successful result's transcript is the sequence of one entry per resolved
\* command, in command order, a failed command's entry carrying its error.
C7_FailingCommandNeverBlocks ==
    /\ Len(Sends(calls)) <= Len(cmds)
    /\ \A n \in 1..Len(Sends(calls)) : Sends(calls)[n].cmd = cmds[n]
    /\ (Returned /\ PromptRead(calls))
          => SentCommands(calls) = get_inspection_commands(commands, LastDevice)
    /\ (Returned /\ LastResult.status = "success")
          => /\ PromptRead(calls)
             /\ LastResult.output = Transcript(Sends(calls))
             /\ Labels(LastResult.output) =
                   [n \in 1..Len(cmds) |-> CommandLabel(cmds[n])]

\* a successful device whose first command raised and whose second command
\* was sent all the same
C7_Witness ==
    /\ Returned
    /\ LastResult.status = "success"
    /\ Len(Sends(calls)) = 2
    /\ Sends(calls)[1].outcome = "raise"
    /\ Sends(calls)[2].outcome = "ok"
    /\ LastResult.output[2] = CommandFailedText(cmds[1], "E")

NegotiationFailed == Returned /\ ~Opened(calls)

\* the failure description of a negotiation that ended with the open call c
FailureDescription(c) ==
    IF c.outcome = "auth" THEN <<AuthFailedText>>
    ELSE IF c.outcome = "timeout" THEN <<TimeoutText>>
    ELSE <<ErrorText(c.value[1])>>

\* the rank label of the credential the open call c was made with
RankOf(c) == IF c.attempt = 0 THEN "primary" ELSE "secondary"

\* C8 as stated: on negotiation failure the result is failed, its transcript
\* is the failure description and its rank is that of the last attempted
\* credential.
C8_RankOfLastAttempt ==
    NegotiationFailed
    => /\ LastResult.status = "failed"
       /\ LastResult.output = FailureDescription(LastOpen(calls))
       /\ LastResult.password_used =
             (IF Opens(calls) = <<>> THEN None ELSE RankOf(LastOpen(calls)))

\* C8 as the code has it: on negotiation failure the result is failed, its
\* transcript is the failure description and its rank is none, although at
\* least one credential was attempted.
C8_NegotiationFailureNoRank ==
    NegotiationFailed
    => /\ LastResult.status = "failed"
       /\ LastResult.output = FailureDescription(LastOpen(calls))
       /\ Len(Opens(calls)) >= 1
       /\ LastResult.password_used = None

\* both credentials of a device were attempted and rejected
C8_Witness ==
    /\ NegotiationFailed
    /\ Len(Opens(calls)) = 2
    /\ LastOpen(calls).attempt = 1
    /\ LastOpen(calls).outcome = "auth"
    /\ LastResult.password_used = None

\* C9: the result of a device depends on nothing but its descriptor and the
\* provider's responses to it: two positions of a run that hold the same
\* descriptor and got the same responses have the same result, whatever was
\* inspected before or between them, and a result already returned is never
\* changed by the devices inspected after it.
C9_DeviceIsolation ==
    /\ [](\A a, b \in 1..Len(results) :
            (devices[a] = devices[b] /\ history[a] = history[b])
            => results[a] = results[b])
    /\ [][\A n \in 1..Len(results) :
            n <= Len(results') /\ results'[n] = results[n]]_vars

\* the same descriptor before and after a successfully inspected other
\* device, failing both times on the same responses with the same result
C9_Witness ==
    /\ pc = "finished"
    /\ devices[1] = devices[3]
    /\ devices[2] /= devices[1]
    /\ history[1] = history[3]
    /\ results[1].status = "failed"
    /\ results[2].status = "success"
    /\ results[3] = results[1]

\* C10: every step out of the finally block closes the open session and
\* returns the result as it stood before the close, whether disconnect
\* returned or raised; and a device that opened a session has returned only
\* after exactly one disconnect, which was the last call on the session.
C10_ClosedOnceCloseErrorSwallowed ==
    /\ [](Returned /\ Opened(calls)
            => /\ Len(Closes(calls)) = 1
               /\ calls[Len(calls)].op = "close"
               /\ connection = "closed")
    /\ [](pc \in {"prompt", "cmd", "finally"}
            => connection = "open" /\ Closes(calls) = <<>>)
    /\ [][pc = "finally"
            => /\ connection' = "closed"
               /\ results' = Append(results, result)]_vars

\* disconnect raised after a successful inspection, and the result is still
\* the successful one
C10_Witness ==
    /\ Returned
    /\ calls[Len(calls)].op = "close"
    /\ calls[Len(calls)].outcome = "raise"
    /\ LastResult.status = "success"
    /\ Len(LastResult.output) >= 2

\* the device inspect_device is, or was last, called with
CurrentDevice == IF pc \in {"run", "finished"} THEN LastDevice ELSE devices[idx]

OpenSessions == { n \in 1..Len(sessions) : sessions[n].state = "open" }

\* C11: devices are inspected one after the other: at most one session is
\* open at any time, an open session is that of the device being inspected,
\* and whenever the run is between devices or about to make an open attempt
\* every session opened so far has been closed, also after a device whose
\* execution step ended in the outer except.
C11_StrictlySequential ==
    /\ Cardinality(OpenSessions) <= 1
    /\ \A n \in OpenSessions :
          /\ sessions[n].owner = idx
          /\ n = Len(sessions)
          /\ pc \in {"prompt", "cmd", "finally"}
    /\ pc \in {"run", "connect", "finished"} => OpenSessions = {}
    /\ \A n \in 1..Len(sessions) :
          /\ sessions[n].owner <= Len(devices)
          /\ n > 1 => sessions[n - 1].owner < sessions[n].owner

\* an open attempt was made for the second device after the first device's
\* prompt read raised and its session was closed
C11_Witness ==
    /\ idx = 2
    /\ Len(calls) >= 1
    /\ calls[1].op = "open"
    /\ Len(results) = 1
    /\ results[1].output = <<ExecErrorText("E")>>
    /\ sessions[1] = [owner |-> 1, state |-> "closed"]

\* C12: the open attempts of a device are made first, primary then
\* secondary, each with its own credential and at most once (so at most two);
\* the secondary is attempted only when the descriptor has a non-empty
\* backup_password and the primary attempt was rejected by authentication.
C12_CandidateOrder ==
    Len(calls) > 0 =>
    LET o == Opens(calls)
        device == CurrentDevice
    IN /\ Len(o) <= 2
       /\ \A n \in 1..Len(o) :
             /\ calls[n].op = "open"
             /\ o[n].attempt = n - 1
       /\ Len(o) >= 1 => o[1].config["password"] = device["password"]
       /\ Len(o) = 2
             => /\ "backup_password" \in DOMAIN device
                /\ device["backup_password"] /= ""
                /\ o[2].config["password"] = device["backup_password"]
                /\ o[1].outcome = "auth"

\* the secondary credential was attempted after the primary was rejected
C12_Witness ==
    /\ Len(Opens(calls)) = 2
    /\ Opens(calls)[1].outcome = "auth"
    /\ Opens(calls)[2].config["password"] = "b2"

\* the open call that returned the session
OkOpen(log) == CHOOSE c \in { log[n] : n \in 1..Len(log) } :
                  c.op = "open" /\ c.outcome = "ok"

SecondaryAccepted ==
    /\ Returned
    /\ Len(calls) >= 2
    /\ calls[1].op = "open" /\ calls[1].outcome = "auth"
    /\ calls[2].op = "open" /\ calls[2].outcome = "ok"

IsTrimOf(h, p) ==
    /\ Len(h) <= Len(p)
    /\ SubSeq(p, 1, Len(h)) = h
    /\ \A n \in (Len(h) + 1)..Len(p) : p[n] \in {"#", ">", "$", " "}
    /\ Len(h) > 0 => h[Len(h)] \notin {"#", ">", "$", " "}

\* the prompt find_prompt returned
PromptOf(log) == (CHOOSE c \in { log[n] : n \in 1..Len(log) } :
                     c.op = "prompt" /\ c.outcome = "ok").value

PromptRaised(log) ==
    \E n \in 1..Len(log) : log[n].op = "prompt" /\ log[n].outcome = "raise"

\* an exception reached the outer except: the prompt read raised, or the
\* for statement raised on a commands value that cannot be iterated
Escaped == PromptRaised(calls) \/ (PromptRead(calls) /\ cmds \in NotIterable)

\* str(e) of the exception that escaped
EscapedError ==
    IF PromptRaised(calls) THEN calls[Len(Opens(calls)) + 1].value[1]
    ELSE NotIterableError

\* C14 as stated: an exception that escapes the execution step outside any
\* command leaves a failed result with the error as transcript, the rank of
\* the credential that opened the session and the descriptor's host as
\* hostname, and inspect_device returns that result.
C14_EscapeKeepsAddress ==
    Escaped
    => /\ pc \in {"finally", "run", "finished"}
       /\ result.status = "failed"
       /\ result.output = <<ExecErrorText(EscapedError)>>
       /\ result.password_used = RankOf(OkOpen(calls))
       /\ result.hostname = CurrentDevice["host"]
       /\ Returned => LastResult = result

\* C14 as the code has it: the same, but the hostname is the descriptor's
\* host only when the prompt read itself raised; when the exception came
\* after the prompt was read, the hostname is the trimmed prompt.
C14_EscapeCaughtAtDevice ==
    Escaped
    => /\ pc \in {"finally", "run", "finished"}
       /\ result.status = "failed"
       /\ result.output = <<ExecErrorText(EscapedError)>>
       /\ result.password_used = RankOf(OkOpen(calls))
       /\ PromptRaised(calls) => result.hostname = CurrentDevice["host"]
       /\ PromptRead(calls) => IsTrimOf(result.hostname, PromptOf(calls))
       /\ Returned => LastResult = result

\* the prompt read raised on a session opened with the secondary credential
\* and the failed result was returned
C14_Witness ==
    /\ Returned
    /\ PromptRaised(calls)
    /\ LastResult.status = "failed"
    /\ LastResult.password_used = "secondary"
    /\ LastResult.hostname = <<"h", "2">>

\* inspect_device has built its result dict
ResultBuilt == pc \in {"connect", "prompt", "cmd", "finally"} \/ Returned

\* C15: the hostname is the prompt without its trailing '#', '>', '$' and
\* space characters once the prompt was read, and the descriptor's host in
\* every other case (no session, or the prompt read raised).
C15_HostnameFromPrompt ==
    ResultBuilt
    => /\ PromptRead(calls) => IsTrimOf(result.hostname, PromptOf(calls))
       /\ ~PromptRead(calls) => result.hostname = CurrentDevice["host"]
       /\ result.ip_address = CurrentDevice["host"]
       /\ Returned => LastResult.hostname = result.hostname

\* a prompt ending in two decoration characters, with one inside it
C15_Witness ==
    /\ Returned
    /\ PromptRead(calls)
    /\ PromptOf(calls) = <<"r", "$", "2", ">", " ">>
    /\ LastResult.hostname = <<"r", "$", "2">>

\* C16: inspect_device never changes the descriptor; every open attempt is
\* given the descriptor's fields without backup_password and commands and
\* with nothing but the password set by the loop, so the attempts of a device
\* differ in the password only; and a non-empty commands list of the
\* descriptor is what resolution returns after the connection is made.
C16_DescriptorUntouched ==
    /\ [][devices' = devices]_vars
    /\ [](Len(calls) > 0 =>
            \A n \in 1..Len(Opens(calls)) :
               LET cfg == Opens(calls)[n].config
                   device == CurrentDevice
               IN /\ DOMAIN cfg =
                        (DOMAIN device \ {"backup_password", "commands"})
                        \cup {"password"}
                  /\ \A key \in DOMAIN cfg \ {"password"} :
                        cfg[key] = device[key]
                  /\ cfg["password"] \in
                        {device["password"], Get(device, "backup_password")})
    /\ []((PromptRead(calls)
             /\ "commands" \in DOMAIN CurrentDevice
             /\ CurrentDevice["commands"] /= <<>>)
          => cmds = CurrentDevice["commands"])

\* the override of a descriptor was sent although the configuration the
\* session was opened with had no commands key
C16_Witness ==
    /\ Returned
    /\ LastDevice = DeviceA
    /\ "commands" \notin DOMAIN calls[1].config
    /\ SentCommands(calls) = <<"cmdA">>

\* run_inspection has returned, every device of the list was attempted (the
\* provider answered at least one call for it) and has its result
RunComplete ==
    /\ pc = "finished"
    /\ Len(results) = Len(devices)
    /\ Len(history) = Len(devices)
    /\ \A n \in 1..Len(devices) : Len(history[n]) >= 1

\* C17: under the fairness of FairSpec every run ends, and stays ended, with
\* every device of the list attempted and holding its result; this includes
\* the runs in which a command raised, so a command error is always
\* followed by the end of the run.
C17_RunTerminates == <>[]RunComplete

\* a run of two devices that ended although the last command raised
C17_Witness ==
    /\ pc = "finished"
    /\ Len(results) = 2
    /\ Len(calls) >= 2
    /\ calls[Len(calls) - 1].op = "send"
    /\ calls[Len(calls) - 1].outcome = "raise"

\* the responses of one device hold a returned open, respectively a
\* returned prompt read
AnsweredOk(responses, op) ==
    \E n \in 1..Len(responses) :
       responses[n][1] = op /\ responses[n][2] = "ok"

\* C18: in every result, success comes with a rank (primary or secondary)
\* and with a session that was opened and whose prompt was read; a result
\* without rank is failed, and so is the result of a device for which no
\* session was opened.  The same holds of the result being built.
C18_SuccessNeedsSession ==
    /\ \A n \in 1..Len(results) :
          /\ results[n].status \in {"success", "failed"}
          /\ results[n].status = "success"
                => /\ results[n].password_used \in {"primary", "secondary"}
                   /\ AnsweredOk(history[n], "open")
                   /\ AnsweredOk(history[n], "prompt")
          /\ results[n].password_used = None => results[n].status = "failed"
          /\ ~AnsweredOk(history[n], "open") => results[n].status = "failed"
    /\ (ResultBuilt /\ result.status = "success")
          => /\ Opened(calls)
             /\ PromptRead(calls)
             /\ result.password_used \in {"primary", "secondary"}

\* a failed result without rank followed by a successful one with rank
C18_Witness ==
    /\ Len(results) = 2
    /\ results[1].status = "failed"
    /\ results[1].password_used = None
    /\ results[2].status = "success"
    /\ results[2].password_used = "primary"

\* C19: a prompt read, a command or a close is called only after an open of
\* the same device returned a session and before any close; a command is
\* sent only after the prompt was read; and at the moment of a prompt read
\* or a command the session in use is open and is the one opened for the
\* device being inspected.
C19_SessionProtocolOrder ==
    /\ [](\A n \in 1..Len(calls) :
            /\ calls[n].op \in {"prompt", "send", "close"}
                  => /\ \E m \in 1..(n - 1) :
                           calls[m].op = "open" /\ calls[m].outcome = "ok"
                     /\ \A m \in 1..(n - 1) : calls[m].op /= "close"
            /\ calls[n].op = "send"
                  => \E m \in 1..(n - 1) :
                        calls[m].op = "prompt" /\ calls[m].outcome = "ok")
    /\ [][(Len(calls') = Len(calls) + 1
             /\ calls'[Len(calls')].op \in {"prompt", "send", "close"})
          => /\ connection = "open"
             /\ Len(sessions) > 0
             /\ sessions[Len(sessions)] = [owner |-> idx, state |-> "open"]
             /\ \A n \in 1..(Len(sessions) - 1) :
                   sessions[n].state = "closed"]_vars

\* the second device of a run went through open, prompt read, command and
\* close after the first device had used a session of its own
C19_Witness ==
    /\ Returned
    /\ Len(results) = 2
    /\ Len(sessions) = 2
    /\ Len(calls) = 4
    /\ calls[1].op = "open" /\ calls[1].outcome = "ok"
    /\ calls[2].op = "prompt"
    /\ calls[3].op = "send"
    /\ calls[4].op = "close"

====
